---- MODULE Spec2Model ----
(***************************************************************************)
(* Model of server.js: the submission intake (POST /api/submissions), the  *)
(* listings (GET /api/submissions, GET /api/calendar), the approval        *)
(* transition (POST /api/approve) and the approval page (GET /approve).    *)
(* Each handler is cut at its awaits: the synchronous code between two     *)
(* awaits is one action, the collaborator's work (the Supabase table, the  *)
(* mail transport) is an action of its own.                                *)
(***************************************************************************)
EXTENDS Integers, Sequences, FiniteSets, TLC

\* ---- bounds of the model ----
NumIntake == 1      \* intake requests in flight at the same time
NumApprove == 2     \* approve requests in flight at the same time
MaxRows == 2        \* rows the submissions table takes before every insert fails
MaxClock == 2       \* Date.now() takes the values 1..MaxClock

IntakeIds == 1..NumIntake
ApproveIds == 1..NumApprove

Null == "null"

\* ---- values the requests are drawn from ----
Texts == {"", "x"}
Emails == {"", "a@sfsu.edu", "b@gmail.com"}
FileFields == {"presentationFile", "paperFile", "logoFile"}
FileNames == {"s.pdf"}
\* req.files: undefined (defined = FALSE) when multer saw no multipart body,
\* else one entry per part that was sent, holding the part's originalname
NoFiles == [defined |-> FALSE, parts |-> [f \in {} |-> ""]]
FilesValues ==
    {NoFiles} \cup {[defined |-> TRUE, parts |-> p] :
                       p \in UNION {[S -> FileNames] : S \in SUBSET FileFields}}
\* studentId of an approve request: absent, or the id of a row that may exist
\* (0 stands for a missing or empty studentId; rows are numbered from 1)
StudentIds == 0..MaxRows

\* now:     the clock (Date.now(), and the table's created_at default)
\* uploads: the files of the uploads directory, name -> content
\* db:      the rows of the submissions table, in insertion order
\* outbox:  the mailOptions handed to transporter.sendMail, in call order
\* intake:  the frames of the POST /api/submissions handlers in flight
\* approve: the frames of the POST /api/approve handlers in flight
\* out:     the HTTP response sent by the step just taken (NoOut: none)
VARIABLES now, uploads, db, outbox, intake, approve, out

vars == <<now, uploads, db, outbox, intake, approve, out>>

\* the emails the classification is tried on: the institutional suffix alone,
\* after a local part, after a subdomain, in another case, followed by other
\* characters, cut short, and another domain
ClassifyEmails ==
    {"a@sfsu.edu", "@sfsu.edu", "a@mail.sfsu.edu", "a@SFSU.EDU", "a@sfsu.edu.com",
     "a@sfsu.edu ", "a@sfsu.ed", "b@gmail.com"}

\* ---- pure helpers ----
\* String.prototype.includes: the suffix may stand anywhere in s
includes(s, suffix) ==
    \E k \in 1..(Len(s) - Len(suffix) + 1) : SubSeq(s, k, k + Len(suffix) - 1) = suffix

\* String.prototype.endsWith
endsWith(s, suffix) ==
    /\ Len(s) >= Len(suffix)
    /\ SubSeq(s, Len(s) - Len(suffix) + 1, Len(s)) = suffix

\* the two statuses the wrong way round
classifyInverted(email) == IF endsWith(email, "@sfsu.edu") THEN "pending" ELSE "approved"

\* line 87: email.endsWith("@sfsu.edu") ? "approved" : "pending"
classify(email) == IF endsWith(email, "@sfsu.edu") THEN "approved" ELSE "pending"

\* a staged name that leaves the clock reading out
stagedNameNoTime(t, originalname) == originalname

\* lines 67, 73, 80: `${Date.now()}-${file.originalname}` (the basename of the path)
stagedName(t, originalname) == ToString(t) \o "-" \o originalname

\* the template of lines 99-101 applied without the null test
uploadUrlOfNull(p) == "/uploads/" \o p

\* lines 99-101: `/uploads/${path.basename(p)}`, null for a part that was not sent
uploadUrl(p) == IF p = Null THEN Null ELSE "/uploads/" \o p

\* res.status(code).json({success, message})
Response(code, success, message) == [status |-> code, success |-> success, message |-> message]

\* no response has been sent yet
NoResponse == Response(0, FALSE, "")

MsgMissing == "Missing required fields"
MsgFailed == "Failed to submit presentation"
MsgAutoApproved == "Your submission has been automatically approved!"
MsgPending == "Your submission is pending approval. You'll receive an email once it's approved."

\* a handler frame of POST /api/submissions that has not been entered: the
\* request (fullName .. files), the handler's locals, and the number of
\* insert and sendMail calls the handler has made
IdleIntake ==
    [pc |-> "idle", fullName |-> "", email |-> "", projectTitle |-> "",
     projectDescription |-> "", files |-> NoFiles,
     presentationPath |-> Null, paperPath |-> Null, logoPath |-> Null,
     status |-> Null, data |-> 0, error |-> FALSE,
     inserts |-> 0, sends |-> 0, mailed |-> "no"]

\* a handler frame of POST /api/approve that has not been entered
IdleApprove == [pc |-> "idle", studentId |-> 0, error |-> FALSE]

\* the response a step sends: the handler, the frame of the request it
\* answers, the status line and JSON body, and the rows of a listing
Out(handler, f, a, response, data) ==
    [handler |-> handler, intake |-> f, approve |-> a, response |-> response,
     data |-> data]

NoOut == Out("", IdleIntake, IdleApprove, NoResponse, << >>)

Init ==
    /\ now = 1
    /\ uploads = [n \in {} |-> Null]
    /\ db = << >>
    /\ outbox = << >>
    /\ intake = [r \in IntakeIds |-> IdleIntake]
    /\ approve = [a \in ApproveIds |-> IdleApprove]
    /\ out = NoOut

\* the clock read by Date.now() advances
Tick ==
    /\ now < MaxClock
    /\ now' = now + 1
    /\ out' = NoOut
    /\ UNCHANGED <<uploads, db, outbox, intake, approve>>

\* ---- POST /api/submissions ----

\* the required-field test with projectDescription left out of it
textsMissingNoDescription(q) ==
    q.fullName = "" \/ q.email = "" \/ q.projectTitle = ""

\* line 54: the required-field test; the operands are evaluated left to right
\* and req.files.presentationFile is only read when the four texts are truthy
textsMissing(q) ==
    q.fullName = "" \/ q.email = "" \/ q.projectTitle = "" \/ q.projectDescription = ""

\* reading req.files.presentationFile when req.files is undefined throws a TypeError
filesReadThrows(q) == ~textsMissing(q) /\ ~q.files.defined

presentationMissing(q) ==
    ~textsMissing(q) /\ q.files.defined /\ "presentationFile" \notin DOMAIN q.files.parts

\* fs.writeFileSync(path, buffer): the file named name now holds payload
writeFile(store, name, payload) ==
    [n \in (DOMAIN store) \cup {name} |-> IF n = name THEN payload ELSE store[n]]

\* the buffer of one uploaded part
Buffer(r, field) == [req |-> r, field |-> field]

\* the frame of a handler that was entered with request q
Entered(q) ==
    [IdleIntake EXCEPT !.fullName = q.fullName, !.email = q.email,
                       !.projectTitle = q.projectTitle,
                       !.projectDescription = q.projectDescription,
                       !.files = q.files]

\* a catch that answers as if the submission had been taken
catchResponseOk == Response(200, TRUE, MsgPending)

\* lines 151-154: the catch of the handler answers 500
catchResponse == Response(500, FALSE, MsgFailed)

\* lines 49-56: the request is rejected by the required-field test
SubmitInvalid(r, q) ==
    /\ textsMissing(q) \/ presentationMissing(q)
    /\ out' = Out("intake", Entered(q), IdleApprove, Response(400, FALSE, MsgMissing), << >>)
    /\ UNCHANGED <<now, uploads, db, outbox, intake>>

\* line 54 throws (req.files is undefined) and the catch of lines 151-154 answers
SubmitThrows(r, q) ==
    /\ filesReadThrows(q)
    /\ out' = Out("intake", Entered(q), IdleApprove, catchResponse, << >>)
    /\ UNCHANGED <<now, uploads, db, outbox, intake>>

\* a staging that only notices the failure of its first write
writeThrowsFirstOnly(q, failAt) == failAt = 1

\* lines 68, 74, 81: fs.writeFileSync throws at the write failAt, if the
\* request makes that write
writeThrows(q, failAt) ==
    \/ failAt = 1
    \/ failAt = 2 /\ "paperFile" \in DOMAIN q.files.parts
    \/ failAt = 3 /\ "logoFile" \in DOMAIN q.files.parts

\* lines 58-103: the files are staged one after the other, the status is
\* computed and the insert is issued. t2 and t3 are the later readings of
\* Date.now(); failAt names the write that throws (0: none does). A reading
\* or a write that the request does not make is not chosen.
SubmitStage(r, q, t2, t3, failAt) ==
    /\ ~textsMissing(q) /\ q.files.defined /\ "presentationFile" \in DOMAIN q.files.parts
    /\ now <= t2 /\ t2 <= t3
    /\ "paperFile" \notin DOMAIN q.files.parts => t2 = now /\ failAt # 2
    /\ "logoFile" \notin DOMAIN q.files.parts => t3 = t2 /\ failAt # 3
    /\ failAt = 1 => t2 = now /\ t3 = now
    /\ failAt = 2 => t3 = t2
    /\ LET hasPaper == "paperFile" \in DOMAIN q.files.parts
           hasLogo == "logoFile" \in DOMAIN q.files.parts
           presentationPath == stagedName(now, q.files.parts["presentationFile"])
           paperPath == IF hasPaper THEN stagedName(t2, q.files.parts["paperFile"]) ELSE Null
           logoPath == IF hasLogo THEN stagedName(t3, q.files.parts["logoFile"]) ELSE Null
           u1 == writeFile(uploads, presentationPath, Buffer(r, "presentationFile"))
           u2 == IF hasPaper THEN writeFile(u1, paperPath, Buffer(r, "paperFile")) ELSE u1
           u3 == IF hasLogo THEN writeFile(u2, logoPath, Buffer(r, "logoFile")) ELSE u2
           thrown == writeThrows(q, failAt)
       IN  /\ uploads' = CASE failAt = 1 -> uploads
                           [] failAt = 2 /\ hasPaper -> u1
                           [] failAt = 3 /\ hasLogo -> u2
                           [] OTHER -> u3
           /\ now' = CASE failAt = 1 -> now
                       [] failAt = 2 /\ hasPaper -> t2
                       [] hasLogo -> t3
                       [] hasPaper -> t2
                       [] OTHER -> now
           /\ IF thrown
              THEN /\ out' = Out("intake", Entered(q), IdleApprove, catchResponse, << >>)
                   /\ intake' = intake
              ELSE /\ out' = NoOut
                   /\ intake' = [intake EXCEPT ![r] =
                         [Entered(q) EXCEPT !.pc = "insert",
                                            !.presentationPath = presentationPath,
                                            !.paperPath = paperPath,
                                            !.logoPath = logoPath,
                                            !.status = classify(q.email),
                                            !.inserts = 1]]
    /\ UNCHANGED <<db, outbox>>

\* every request body over the field values of the model
Requests ==
    [fullName : Texts, email : Emails, projectTitle : Texts,
     projectDescription : Texts, files : FilesValues]

\* lines 48-103: the handler runs up to its first await, on a body of Q
Submit(r, Q) ==
    /\ intake[r].pc = "idle"
    /\ \E q \in Q :
          \/ SubmitInvalid(r, q)
          \/ SubmitThrows(r, q)
          \/ \E t2 \in now..MaxClock, t3 \in now..MaxClock, failAt \in 0..3 :
                SubmitStage(r, q, t2, t3, failAt)
    /\ UNCHANGED approve

\* an insert payload that hard-codes the status instead of using the computed one
NewRowPending(f, id, createdAt) ==
    [id |-> id,
     full_name |-> f.fullName,
     email |-> f.email,
     project_title |-> f.projectTitle,
     project_description |-> f.projectDescription,
     presentation_url |-> uploadUrl(f.presentationPath),
     paper_url |-> uploadUrl(f.paperPath),
     logo_url |-> uploadUrl(f.logoPath),
     status |-> "pending",
     created_at |-> createdAt]

\* the row the insert of lines 93-103 asks for; id and created_at are
\* assigned by the table
NewRow(f, id, createdAt) ==
    [id |-> id,
     full_name |-> f.fullName,
     email |-> f.email,
     project_title |-> f.projectTitle,
     project_description |-> f.projectDescription,
     presentation_url |-> uploadUrl(f.presentationPath),
     paper_url |-> uploadUrl(f.paperPath),
     logo_url |-> uploadUrl(f.logoPath),
     status |-> f.status,
     created_at |-> createdAt]

\* lines 91-104: supabase.from("submissions").insert(...).select() is carried
\* out by the table, which returns {data, error}
DbInsert(r) ==
    /\ intake[r].pc = "insert"
    /\ \E fail \in BOOLEAN :
          IF fail
          THEN /\ db' = db
               /\ intake' = [intake EXCEPT ![r].pc = "inserted", ![r].error = TRUE]
          ELSE /\ Len(db) < MaxRows
               /\ db' = Append(db, NewRow(intake[r], Len(db) + 1, now))
               /\ intake' = [intake EXCEPT ![r].pc = "inserted", ![r].data = Len(db) + 1]
    /\ out' = NoOut
    /\ UNCHANGED <<now, uploads, outbox, approve>>

\* the link built from data.id instead of data[0].id: data is an array
approvalLinkOfArray(id) == "https://nercelsfsu.vercel.app/approve?studentId=undefined"

\* line 117
approvalLink(id) == "https://nercelsfsu.vercel.app/approve?studentId=" \o ToString(id)

\* lines 120-137
mailOptions(f) ==
    [to |-> "necrlresearch@gmail.com",
     subject |-> "Approval Request: " \o f.projectTitle,
     link |-> approvalLink(f.data)]

\* lines 145-150
successResponse(f) ==
    Response(200, TRUE,
        IF endsWith(f.email, "@sfsu.edu") THEN MsgAutoApproved ELSE MsgPending)

\* a handler that does not look at error and goes on to the notification
AfterInsertIgnoresError(r) ==
    /\ intake[r].pc = "inserted"
    /\ outbox' = Append(outbox, mailOptions(intake[r]))
    /\ intake' = [intake EXCEPT ![r].pc = "mail", ![r].sends = @ + 1]
    /\ out' = NoOut
    /\ UNCHANGED <<now, uploads, db, approve>>

\* lines 106-150: the handler resumes with {data, error}: it answers 500 on an
\* error, calls transporter.sendMail for a non-institutional email and
\* answers 200 at once otherwise
AfterInsert(r) ==
    /\ intake[r].pc = "inserted"
    /\ IF intake[r].error
       THEN /\ out' = Out("intake", intake[r], IdleApprove,
                          Response(500, FALSE, MsgFailed), << >>)
            /\ intake' = [intake EXCEPT ![r] = IdleIntake]
            /\ outbox' = outbox
       ELSE IF ~endsWith(intake[r].email, "@sfsu.edu")
            THEN /\ outbox' = Append(outbox, mailOptions(intake[r]))
                 /\ intake' = [intake EXCEPT ![r].pc = "mail", ![r].sends = @ + 1]
                 /\ out' = NoOut
            ELSE /\ outbox' = outbox
                 /\ out' = Out("intake", intake[r], IdleApprove,
                               successResponse(intake[r]), << >>)
                 /\ intake' = [intake EXCEPT ![r] = IdleIntake]
    /\ UNCHANGED <<now, uploads, db, approve>>

\* what the handler answers once `await transporter.sendMail(...)` is over:
\* lines 141-150 when the promise resolved, the catch of lines 151-154 when
\* it rejected
afterSendMail(f, sent) ==
    IF sent THEN successResponse(f) ELSE catchResponse

\* a handler that calls sendMail once more when the promise rejects
MailReturnRetries(r) ==
    /\ intake[r].pc = "mail"
    /\ \E sent \in BOOLEAN :
          IF sent \/ intake[r].sends >= 2
          THEN /\ out' = Out("intake",
                             [intake[r] EXCEPT !.mailed = IF sent THEN "sent" ELSE "failed"],
                             IdleApprove, afterSendMail(intake[r], sent), << >>)
               /\ intake' = [intake EXCEPT ![r] = IdleIntake]
               /\ outbox' = outbox
          ELSE /\ out' = NoOut
               /\ intake' = [intake EXCEPT ![r].sends = @ + 1]
               /\ outbox' = Append(outbox, mailOptions(intake[r]))
    /\ UNCHANGED <<now, uploads, db, approve>>

\* a handler that deletes the row again when sendMail rejects
MailReturnRollback(r) ==
    /\ intake[r].pc = "mail"
    /\ \E sent \in BOOLEAN :
          /\ out' = Out("intake",
                        [intake[r] EXCEPT !.mailed = IF sent THEN "sent" ELSE "failed"],
                        IdleApprove, afterSendMail(intake[r], sent), << >>)
          /\ db' = IF sent THEN db
                   ELSE SelectSeq(db, LAMBDA row : row.id # intake[r].data)
    /\ intake' = [intake EXCEPT ![r] = IdleIntake]
    /\ UNCHANGED <<now, uploads, outbox, approve>>

\* line 140: the transport resolves or rejects the sendMail promise and the
\* handler answers
MailReturn(r) ==
    /\ intake[r].pc = "mail"
    /\ \E sent \in BOOLEAN :
          out' = Out("intake",
                     [intake[r] EXCEPT !.mailed = IF sent THEN "sent" ELSE "failed"],
                     IdleApprove, afterSendMail(intake[r], sent), << >>)
    /\ intake' = [intake EXCEPT ![r] = IdleIntake]
    /\ UNCHANGED <<now, uploads, db, outbox, approve>>

\* ---- POST /api/approve ----

\* lines 207-215: the handler up to its await; a falsy studentId is answered 400
ApproveStart(a) ==
    /\ approve[a].pc = "idle"
    /\ \E studentId \in StudentIds :
          IF studentId = 0
          THEN /\ approve' = approve
               /\ out' = Out("approve", IdleIntake, IdleApprove,
                             Response(400, FALSE, "Student ID is required"), << >>)
          ELSE /\ approve' = [approve EXCEPT ![a] =
                     [IdleApprove EXCEPT !.pc = "update", !.studentId = studentId]]
               /\ out' = NoOut
    /\ UNCHANGED <<now, uploads, db, outbox, intake>>

\* an update that flips the status instead of setting it
setApprovedToggle(rows, studentId) ==
    [i \in DOMAIN rows |->
        IF rows[i].id = studentId
        THEN [rows[i] EXCEPT !.status = IF @ = "approved" THEN "pending" ELSE "approved"]
        ELSE rows[i]]

\* line 215: update({status: "approved"}).eq("id", studentId) on the table:
\* every row whose id matches is updated; matching no row is not an error
setApproved(rows, studentId) ==
    [i \in DOMAIN rows |->
        IF rows[i].id = studentId THEN [rows[i] EXCEPT !.status = "approved"] ELSE rows[i]]

\* line 215: the table carries out the update and returns {error}
DbUpdate(a) ==
    /\ approve[a].pc = "update"
    /\ \E fail \in BOOLEAN :
          IF fail
          THEN /\ db' = db
               /\ approve' = [approve EXCEPT ![a].pc = "updated", ![a].error = TRUE]
          ELSE /\ db' = setApproved(db, approve[a].studentId)
               /\ approve' = [approve EXCEPT ![a].pc = "updated"]
    /\ out' = NoOut
    /\ UNCHANGED <<now, uploads, outbox, intake>>

\* lines 217-222
approveResponse(error) ==
    IF error
    THEN Response(500, FALSE, "Failed to approve submission")
    ELSE Response(200, TRUE, "Submission approved successfully")

\* a handler that answers nothing when the update returned an error
ApproveRespondHangs(a) ==
    /\ approve[a].pc = "updated" /\ ~approve[a].error
    /\ out' = Out("approve", IdleIntake, approve[a], approveResponse(approve[a].error), << >>)
    /\ approve' = [approve EXCEPT ![a] = IdleApprove]
    /\ UNCHANGED <<now, uploads, db, outbox, intake>>

\* lines 217-222: the handler resumes with {error} and answers
ApproveRespond(a) ==
    /\ approve[a].pc = "updated"
    /\ out' = Out("approve", IdleIntake, approve[a], approveResponse(approve[a].error), << >>)
    /\ approve' = [approve EXCEPT ![a] = IdleApprove]
    /\ UNCHANGED <<now, uploads, db, outbox, intake>>

\* ---- GET /api/submissions, GET /api/calendar, GET /approve ----

\* a query that lost its .eq("status", ...) filter
matchingAll(rows, status) == DOMAIN rows

\* .eq("status", status): the positions of the rows whose status is status
matching(rows, status) == {i \in DOMAIN rows : rows[i].status = status}

\* .order("created_at", {ascending: true}): oldest first
orderedAscending(rows, S) ==
    {p \in [1..Cardinality(S) -> S] :
        /\ \A i, j \in 1..Cardinality(S) : i # j => p[i] # p[j]
        /\ \A i, j \in 1..Cardinality(S) :
              i < j => rows[p[i]].created_at <= rows[p[j]].created_at}

\* .order("created_at", {ascending: false}): the orders the table may return
\* the rows at the positions S in; rows of equal created_at come in any order
ordered(rows, S) ==
    {p \in [1..Cardinality(S) -> S] :
        /\ \A i, j \in 1..Cardinality(S) : i # j => p[i] # p[j]
        /\ \A i, j \in 1..Cardinality(S) :
              i < j => rows[p[i]].created_at >= rows[p[j]].created_at}

\* .select("id, full_name, project_title, created_at")
calendarColumns(row) ==
    [id |-> row.id, full_name |-> row.full_name, project_title |-> row.project_title,
     created_at |-> row.created_at]

StatusParams == {"", "pending", "approved"}

\* lines 159-183: the listing by status; the frame slot of the response
\* carries the status parameter of the query
ListSubmissions ==
    /\ \E status \in StatusParams, fail \in BOOLEAN :
          LET query == [IdleIntake EXCEPT !.status = status]
          IN  IF status = ""
              THEN out' = Out("list", query, IdleApprove,
                              Response(400, FALSE, "Status parameter is required"), << >>)
              ELSE IF fail
              THEN out' = Out("list", query, IdleApprove,
                              Response(500, FALSE, "Failed to fetch submissions"), << >>)
              ELSE \E p \in ordered(db, matching(db, status)) :
                      out' = Out("list", query, IdleApprove, Response(200, TRUE, ""),
                                 [k \in DOMAIN p |-> db[p[k]]])
    /\ UNCHANGED <<now, uploads, db, outbox, intake, approve>>

\* lines 186-204: the approved rows for the calendar
Calendar ==
    /\ \E fail \in BOOLEAN :
          IF fail
          THEN out' = Out("calendar", IdleIntake, IdleApprove,
                          Response(500, FALSE, "Failed to fetch approved submissions"), << >>)
          ELSE \E p \in ordered(db, matching(db, "approved")) :
                  out' = Out("calendar", IdleIntake, IdleApprove, Response(200, TRUE, ""),
                             [k \in DOMAIN p |-> calendarColumns(db[p[k]])])
    /\ UNCHANGED <<now, uploads, db, outbox, intake, approve>>

\* a page that approves the submission as soon as the link is opened
ApprovePageApproves ==
    /\ \E studentId \in StudentIds :
          /\ out' = Out("page", IdleIntake, [IdleApprove EXCEPT !.studentId = studentId],
                        IF studentId = 0
                        THEN Response(302, FALSE, "/?error=missing-id")
                        ELSE Response(200, TRUE, "Approve Submission"),
                        << >>)
          /\ db' = setApproved(db, studentId)
    /\ UNCHANGED <<now, uploads, outbox, intake, approve>>

\* lines 230-307: the approval page, or the redirect when studentId is missing
ApprovePage ==
    /\ \E studentId \in StudentIds :
          out' = Out("page", IdleIntake, [IdleApprove EXCEPT !.studentId = studentId],
                     IF studentId = 0
                     THEN Response(302, FALSE, "/?error=missing-id")
                     ELSE Response(200, TRUE, "Approve Submission"),
                     << >>)
    /\ UNCHANGED <<now, uploads, db, outbox, intake, approve>>

\* ---- specifications ----

\* the request bodies of the moderation workflow: every text but the email
\* is given, and req.files is undefined or holds the presentation alone
WorkflowRequests ==
    {q \in Requests :
        /\ q.fullName = "x" /\ q.projectTitle = "x" /\ q.projectDescription = "x"
        /\ q.files.defined => DOMAIN q.files.parts = {"presentationFile"}}

Next ==
    \/ Tick
    \/ \E r \in IntakeIds : Submit(r, WorkflowRequests)
    \/ \E r \in IntakeIds : DbInsert(r)
    \/ \E r \in IntakeIds : AfterInsert(r)
    \/ \E r \in IntakeIds : MailReturn(r)
    \/ \E a \in ApproveIds : ApproveStart(a)
    \/ \E a \in ApproveIds : DbUpdate(a)
    \/ \E a \in ApproveIds : ApproveRespond(a)
    \/ ListSubmissions
    \/ Calendar
    \/ ApprovePage

Spec == Init /\ [][Next]_vars

\* intake and approval without the GET handlers
NextModeration ==
    \/ Tick
    \/ \E r \in IntakeIds : Submit(r, WorkflowRequests)
    \/ \E r \in IntakeIds : DbInsert(r)
    \/ \E r \in IntakeIds : AfterInsert(r)
    \/ \E r \in IntakeIds : MailReturn(r)
    \/ \E a \in ApproveIds : ApproveStart(a)
    \/ \E a \in ApproveIds : DbUpdate(a)
    \/ \E a \in ApproveIds : ApproveRespond(a)

SpecModeration == Init /\ [][NextModeration]_vars

\* the request bodies of the required-field test: every combination of the
\* four texts, with no req.files, no part, or the presentation alone
ValidationRequests ==
    {q \in Requests : DOMAIN q.files.parts \subseteq {"presentationFile"}}

\* the intake alone
NextIntake ==
    \/ Tick
    \/ \E r \in IntakeIds : Submit(r, ValidationRequests)
    \/ \E r \in IntakeIds : DbInsert(r)
    \/ \E r \in IntakeIds : AfterInsert(r)
    \/ \E r \in IntakeIds : MailReturn(r)

SpecIntake == Init /\ [][NextIntake]_vars

\* the request bodies of the classification: complete but for the email and
\* req.files, which is undefined or holds the presentation alone
ClassifyRequests ==
    [fullName : {"x"}, email : ClassifyEmails \cup {""}, projectTitle : {"x"},
     projectDescription : {"x"},
     files : {f \in FilesValues : f.defined => DOMAIN f.parts = {"presentationFile"}}]

\* the intake alone, over the emails of the classification
NextClassify ==
    \/ Tick
    \/ \E r \in IntakeIds : Submit(r, ClassifyRequests)
    \/ \E r \in IntakeIds : DbInsert(r)
    \/ \E r \in IntakeIds : AfterInsert(r)
    \/ \E r \in IntakeIds : MailReturn(r)

SpecClassify == Init /\ [][NextClassify]_vars

\* the original names of the staged parts
StagingFileNames == {"s.pdf", "t.pdf"}

\* req.files of the staging: undefined, or any of the three parts; the
\* presentation bears either name, the paper and the logo the first one, so
\* that two parts of a request bear the same name or different names
StagingFiles ==
    {NoFiles} \cup
    {[defined |-> TRUE, parts |-> p] :
        p \in {g \in UNION {[S -> StagingFileNames] : S \in SUBSET FileFields} :
                  \A f \in DOMAIN g : f # "presentationFile" => g[f] = "s.pdf"}}

\* the request bodies of the staging: complete but for req.files, with an
\* email that is not institutional
StagingRequests ==
    [fullName : {"x"}, email : {"b@gmail.com"}, projectTitle : {"x"},
     projectDescription : {"x"}, files : StagingFiles]

\* the intake alone, over the bodies of the staging
NextStaging ==
    \/ Tick
    \/ \E r \in IntakeIds : Submit(r, StagingRequests)
    \/ \E r \in IntakeIds : DbInsert(r)
    \/ \E r \in IntakeIds : AfterInsert(r)
    \/ \E r \in IntakeIds : MailReturn(r)

SpecStaging == Init /\ [][NextStaging]_vars

\* every call of a collaborator returns or fails (the table answers the
\* insert and the update, the transport settles the sendMail promise) and the
\* event loop then resumes the handler that awaits it
CollaboratorsReturn ==
    /\ \A r \in IntakeIds :
          WF_vars(DbInsert(r)) /\ WF_vars(AfterInsert(r)) /\ WF_vars(MailReturn(r))
    /\ \A a \in ApproveIds : WF_vars(DbUpdate(a)) /\ WF_vars(ApproveRespond(a))

\* the intake and the approval with collaborators that always return
SpecLive == Init /\ [][NextModeration]_vars /\ CollaboratorsReturn

\* ---- the claims ----

institutional(email) == endsWith(email, "@sfsu.edu")

\* the ids of the stored rows, and the row of an id
ids(rows) == {rows[i].id : i \in DOMAIN rows}
rowOf(rows, id) == rows[CHOOSE i \in DOMAIN rows : rows[i].id = id]

\* the approval link that embeds id
linkTo(id) == "https://nercelsfsu.vercel.app/approve?studentId=" \o ToString(id)

\* the number of sendMail calls whose approval link embeds id
mailsFor(id) == Cardinality({k \in DOMAIN outbox : outbox[k].link = linkTo(id)})

\* a request that lacks a required text or the presentation part
lacksRequired(f) ==
    \/ f.fullName = "" \/ f.email = "" \/ f.projectTitle = "" \/ f.projectDescription = ""
    \/ "presentationFile" \notin DOMAIN f.files.parts

\* C1: an intake of a valid non-institutional submission whose record was
\* persisted and whose sendMail then failed is answered with the success
\* response (200, success:true, the pending-approval message).
C1_DispatchFailureAnswersSuccess ==
    (out.handler = "intake" /\ out.intake.mailed = "failed")
        => out.response = Response(200, TRUE, MsgPending)

\* C2: once the record of an intake is persisted, the failure of sendMail
\* neither removes the record nor changes its status: the step in which the
\* handler learns of the failure and answers leaves the table as it was, and
\* the record this intake created is still in it, with the email it was
\* created with. (The record is created 'pending' and only POST /api/approve
\* changes a status, so it is still 'pending' unless an approve request for
\* its id was carried out meanwhile.)
C2_DispatchFailureKeepsRecord ==
    [][\A r \in IntakeIds :
          (/\ intake[r].pc = "mail"
           /\ intake'[r].pc = "idle"
           /\ out'.handler = "intake"
           /\ out'.intake.mailed = "failed")
          => /\ db' = db
             /\ intake[r].data \in ids(db')
             /\ rowOf(db', intake[r].data).email = intake[r].email
             /\ rowOf(db', intake[r].data).status \in {"pending", "approved"}
             /\ intake[r].status = "pending"]_vars

C2_Witness ==
    /\ out.handler = "intake"
    /\ out.intake.mailed = "failed"
    /\ out.intake.data \in ids(db)
    /\ rowOf(db, out.intake.data).status = "pending"

\* C3: a request that lacks one of fullName, email, projectTitle,
\* projectDescription or the presentationFile part has no side effect: the
\* step that answers it writes no file, inserts no row and calls no sendMail,
\* and such a request never gets past the required-field test (no handler in
\* flight carries one).
C3_NoSideEffectWhenMissing ==
    /\ [](\A r \in IntakeIds : intake[r].pc # "idle" => ~lacksRequired(intake[r]))
    /\ [][(out'.handler = "intake" /\ lacksRequired(out'.intake))
            => /\ uploads' = uploads
               /\ db' = db
               /\ outbox' = outbox
               /\ intake' = intake
               /\ out'.intake.inserts = 0
               /\ out'.intake.sends = 0]_vars

C3_Witness ==
    /\ out.handler = "intake"
    /\ out.intake.fullName # "" /\ out.intake.email # ""
    /\ out.intake.projectTitle # "" /\ out.intake.projectDescription # ""
    /\ out.intake.files.defined
    /\ "presentationFile" \notin DOMAIN out.intake.files.parts
    /\ Len(db) > 0

\* C4: every intake request that lacks a required text or the presentation
\* part is answered 400 with success:false, also when req.files is absent.
C4_MissingAnswered400 ==
    (out.handler = "intake" /\ lacksRequired(out.intake))
        => (out.response.status = 400 /\ ~out.response.success)

\* C5: a valid intake with an institutional email whose staging and insert
\* succeeded is answered 200 with the auto-approved message, its record is
\* stored with status 'approved', and sendMail is never called for it: no
\* institutional handler in flight ever waits for the transport, and no mail
\* carries a link to its record.
C5_InstitutionalAutoApproved ==
    /\ (out.handler = "intake" /\ institutional(out.intake.email) /\ out.intake.data # 0)
          => /\ out.response = Response(200, TRUE, MsgAutoApproved)
             /\ out.intake.sends = 0
             /\ out.intake.data \in ids(db)
             /\ rowOf(db, out.intake.data).status = "approved"
             /\ rowOf(db, out.intake.data).email = out.intake.email
             /\ mailsFor(out.intake.data) = 0
    /\ \A r \in IntakeIds :
          institutional(intake[r].email)
              => /\ intake[r].pc # "mail"
                 /\ intake[r].sends = 0
                 /\ (intake[r].data # 0 =>
                        /\ intake[r].data \in ids(db)
                        /\ rowOf(db, intake[r].data).status = "approved"
                        /\ mailsFor(intake[r].data) = 0)

C5_Witness ==
    /\ out.handler = "intake"
    /\ institutional(out.intake.email)
    /\ out.intake.data \in ids(db)
    /\ out.response.status = 200

\* C6: a valid intake with a non-institutional email whose staging and insert
\* succeeded stores its record with status 'pending' and calls sendMail
\* exactly once: the call is made by a handler whose insert has returned
\* without error, its link embeds the id that insert returned, the row of
\* that id is in the table when the call is made, and no other call ever
\* carries a link to that id.
C6_PendingNotifiedOnce ==
    /\ [](/\ \A r \in IntakeIds :
               intake[r].pc = "mail"
                  => /\ intake[r].sends = 1
                     /\ intake[r].data \in ids(db)
                     /\ rowOf(db, intake[r].data).email = intake[r].email
                     /\ mailsFor(intake[r].data) = 1
          /\ (out.handler = "intake" /\ ~institutional(out.intake.email)
                  /\ out.intake.data # 0)
                  => /\ out.intake.sends = 1
                     /\ out.intake.mailed # "no"
                     /\ out.intake.data \in ids(db)
                     /\ mailsFor(out.intake.data) = 1)
    /\ [][/\ \A r \in IntakeIds :
               (/\ intake[r].pc = "insert" /\ intake'[r].pc = "inserted"
                /\ ~intake'[r].error /\ ~institutional(intake[r].email))
               => /\ Len(db') = Len(db) + 1
                  /\ intake'[r].data \notin ids(db)
                  /\ db'[Len(db')].id = intake'[r].data
                  /\ db'[Len(db')].email = intake[r].email
                  /\ db'[Len(db')].status = "pending"
          /\ outbox' # outbox
               => \E r \in IntakeIds :
                     /\ intake[r].pc = "inserted" /\ ~intake[r].error
                     /\ ~institutional(intake[r].email)
                     /\ intake[r].data \in ids(db)
                     /\ mailsFor(intake[r].data) = 0
                     /\ Len(outbox') = Len(outbox) + 1
                     /\ SubSeq(outbox', 1, Len(outbox)) = outbox
                     /\ outbox'[Len(outbox')].link = linkTo(intake[r].data)]_vars

C6_Witness ==
    /\ out.handler = "intake"
    /\ ~institutional(out.intake.email)
    /\ out.intake.data \in ids(db)
    /\ out.intake.mailed = "sent"
    /\ mailsFor(out.intake.data) = 1

\* C7: an approve whose update the table carries out without error sets the
\* status of the row of its id to 'approved' and leaves every other row, and
\* every other column, as it was; on a row that is already 'approved' it
\* changes nothing; and the request is answered with the success response,
\* whether it is the first approve of that id or a later or interleaved one.
C7_ApproveIdempotent ==
    /\ [](\A a \in ApproveIds : approve[a].pc # "idle" => approve[a].studentId # 0)
    /\ []((out.handler = "approve" /\ out.approve.pc = "updated" /\ ~out.approve.error)
            => out.response = Response(200, TRUE, "Submission approved successfully"))
    /\ [][\A a \in ApproveIds :
            (approve[a].pc = "update" /\ approve'[a].pc = "updated" /\ ~approve'[a].error)
            => /\ Len(db') = Len(db)
               /\ \A i \in DOMAIN db :
                     db'[i] = IF db[i].id = approve[a].studentId
                              THEN [db[i] EXCEPT !.status = "approved"]
                              ELSE db[i]
               /\ (\A i \in DOMAIN db :
                      db[i].id = approve[a].studentId => db[i].status = "approved")
                    => db' = db]_vars

\* two approves of the same non-institutional record, interleaved: both
\* updates are carried out, one request is answered, the other is about to be
C7_Witness ==
    /\ out.handler = "approve"
    /\ out.response.status = 200
    /\ out.approve.studentId \in ids(db)
    /\ ~institutional(rowOf(db, out.approve.studentId).email)
    /\ rowOf(db, out.approve.studentId).status = "approved"
    /\ Len(db) = 2
    /\ \E i \in DOMAIN db : db[i].status = "pending"
    /\ \E a \in ApproveIds :
          /\ approve[a].pc = "updated" /\ ~approve[a].error
          /\ approve[a].studentId = out.approve.studentId

\* C8: an approve with a non-empty id that matches no stored record is not
\* answered with the success response.
C8_ApproveUnknownIdFails ==
    (out.handler = "approve" /\ out.approve.studentId # 0
        /\ out.approve.studentId \notin ids(db))
        => (out.response.status # 200 /\ ~out.response.success)

\* C9: every record's status is 'pending' or 'approved'; a record keeps its
\* id and email, and the only change of status is pending -> approved; a
\* record is created with the status the email-suffix rule gives its email,
\* so a record with an institutional email is 'approved' from its creation on.
C9_StatusForwardOnly ==
    /\ [](\A i \in DOMAIN db :
             /\ db[i].status \in {"pending", "approved"}
             /\ institutional(db[i].email) => db[i].status = "approved")
    /\ [][/\ \A i \in DOMAIN db :
               /\ i \in DOMAIN db'
               /\ db'[i].id = db[i].id
               /\ db'[i].email = db[i].email
               /\ \/ db'[i].status = db[i].status
                  \/ db[i].status = "pending" /\ db'[i].status = "approved"
          /\ \A i \in (DOMAIN db') \ (DOMAIN db) :
               db'[i].status =
                   IF institutional(db'[i].email) THEN "approved" ELSE "pending"]_vars

C9_Witness ==
    /\ Len(db) = 2
    /\ \E i, j \in DOMAIN db :
          /\ ~institutional(db[i].email) /\ db[i].status = "approved"
          /\ institutional(db[j].email) /\ db[j].status = "approved"
    /\ out.handler = "calendar"

\* C10: the approved listing and the calendar return only records that are
\* 'approved' in the table; a non-institutional record is created 'pending',
\* and it becomes 'approved' only in the step in which the table carries out,
\* without error, the update of an approve request that carries its id.
C10_ListedOnlyAfterApprove ==
    /\ []((/\ out.handler \in {"list", "calendar"}
           /\ out.response.status = 200
           /\ (out.handler = "calendar" \/ out.intake.status = "approved"))
            => \A k \in DOMAIN out.data :
                  \E i \in DOMAIN db :
                     db[i].id = out.data[k].id /\ db[i].status = "approved")
    /\ [][\A i \in DOMAIN db' :
            ~institutional(db'[i].email)
            => /\ i \notin DOMAIN db => db'[i].status = "pending"
               /\ (i \in DOMAIN db /\ db[i].status = "pending"
                      /\ db'[i].status = "approved")
                    => \E a \in ApproveIds :
                          /\ approve[a].pc = "update"
                          /\ approve[a].studentId = db[i].id
                          /\ approve'[a].pc = "updated"
                          /\ ~approve'[a].error]_vars

C10_Witness ==
    /\ out.handler = "list"
    /\ out.response.status = 200
    /\ out.intake.status = "approved"
    /\ \E k \in DOMAIN out.data : ~institutional(out.data[k].email)
    /\ \E i \in DOMAIN db : db[i].status = "pending"

\* e is some text followed by exactly the characters @sfsu.edu
hasLiteralSuffix(e) == \E k \in 0..Len(e) : e = SubSeq(e, 1, k) \o "@sfsu.edu"

\* C11: the status an intake computes for its email, and stores in the row,
\* is 'approved' if and only if the email is some text followed by exactly
\* '@sfsu.edu' (same case, nothing after it), and 'pending' otherwise; so
\* 'a@SFSU.EDU', 'a@sfsu.edu.com' and 'a@sfsu.edu ' are 'pending'.
C11_ExactSuffixRule ==
    /\ \A r \in IntakeIds :
          intake[r].pc # "idle"
              => /\ intake[r].status \in {"approved", "pending"}
                 /\ intake[r].status = "approved" <=> hasLiteralSuffix(intake[r].email)
                 /\ intake[r].email \in {"a@SFSU.EDU", "a@sfsu.edu.com", "a@sfsu.edu "}
                        => intake[r].status = "pending"
                 /\ intake[r].email = "a@sfsu.edu" => intake[r].status = "approved"
    /\ \A i \in DOMAIN db :
          db[i].status = "pending" => ~hasLiteralSuffix(db[i].email)

C11_Witness ==
    /\ Len(db) = 2
    /\ db[1].email = "a@sfsu.edu.com" /\ db[1].status = "pending"
    /\ db[2].email = "a@sfsu.edu" /\ db[2].status = "approved"
    /\ \E r \in IntakeIds :
          intake[r].pc = "insert" /\ intake[r].email = "a@SFSU.EDU"
                                  /\ intake[r].status = "pending"

\* the ids of the stored rows whose status is now status
idsWithStatus(status) == {db[i].id : i \in {j \in DOMAIN db : db[j].status = status}}

\* data names every id of S once and no other id, newest first
newestFirstOver(data, S) ==
    /\ Len(data) = Cardinality(S)
    /\ {data[k].id : k \in DOMAIN data} = S
    /\ \A k, l \in DOMAIN data : k < l => data[k].created_at >= data[l].created_at

\* C12: a listing by a non-empty status that answers 200 returns exactly the
\* stored rows whose status is now that status, each once and whole, newest
\* first by created_at; the calendar that answers 200 returns the rows that are
\* now approved, each once, newest first, restricted to id, full_name,
\* project_title and created_at.
C12_ListingsExactAndNewestFirst ==
    /\ (out.handler = "list" /\ out.response.status = 200)
          => /\ out.intake.status # ""
             /\ newestFirstOver(out.data, idsWithStatus(out.intake.status))
             /\ \A k \in DOMAIN out.data : out.data[k] = rowOf(db, out.data[k].id)
    /\ (out.handler = "calendar" /\ out.response.status = 200)
          => /\ newestFirstOver(out.data, idsWithStatus("approved"))
             /\ \A k \in DOMAIN out.data :
                   LET row == rowOf(db, out.data[k].id)
                   IN  out.data[k] = [id |-> row.id, full_name |-> row.full_name,
                                      project_title |-> row.project_title,
                                      created_at |-> row.created_at]

\* the calendar lists two approved rows of different creation times, the
\* older of which was approved by a moderator
C12_Witness ==
    /\ out.handler = "calendar" /\ out.response.status = 200
    /\ Len(out.data) = 2
    /\ out.data[1].created_at > out.data[2].created_at
    /\ ~institutional(rowOf(db, out.data[2].id).email)

\* the non-null staged paths of a frame, by part
pathsOf(f) ==
    [part \in {p \in DOMAIN f.files.parts :
                  CASE p = "presentationFile" -> f.presentationPath # Null
                    [] p = "paperFile" -> f.paperPath # Null
                    [] OTHER -> f.logoPath # Null} |->
        CASE part = "presentationFile" -> f.presentationPath
          [] part = "paperFile" -> f.paperPath
          [] OTHER -> f.logoPath]

\* the file a reference of a row names holds the payload of the part field
holdsPart(url, field) ==
    \E n \in DOMAIN uploads : url = "/uploads/" \o n /\ uploads[n].field = field

\* C13 as stated: no two staged files receive the same reference, whatever
\* their original names and the clock, so that every reference of a stored row
\* still holds the payload of its own part.
C13_ReferencesAlwaysUnique ==
    /\ \A r \in IntakeIds :
          intake[r].pc # "idle"
              => \A p1, p2 \in DOMAIN pathsOf(intake[r]) :
                    p1 # p2 => pathsOf(intake[r])[p1] # pathsOf(intake[r])[p2]
    /\ \A i \in DOMAIN db :
          /\ holdsPart(db[i].presentation_url, "presentationFile")
          /\ db[i].paper_url # Null => holdsPart(db[i].paper_url, "paperFile")
          /\ db[i].logo_url # Null => holdsPart(db[i].logo_url, "logoFile")

\* the names a file staged at the clock reading t can bear
namesAt(t) == {ToString(t) \o "-" \o nm : nm \in StagingFileNames}

\* C13, amended: a reference is the clock reading followed by the original
\* name, so two staged files share a reference only when they bear the same
\* original name and are staged at the same clock reading. Two parts of one
\* request with different names get different references; a reference given
\* by a staging is new to the storage or is the name of a file of the same
\* original name staged at this very clock reading; and no step touches a
\* file that was staged at an earlier clock reading.
C13_UniqueUpToNameAndClock ==
    /\ [](\A r \in IntakeIds :
            intake[r].pc # "idle"
                => \A p1, p2 \in DOMAIN pathsOf(intake[r]) :
                      intake[r].files.parts[p1] # intake[r].files.parts[p2]
                          => pathsOf(intake[r])[p1] # pathsOf(intake[r])[p2])
    /\ [][ /\ \A r \in IntakeIds :
               (intake[r].pc = "idle" /\ intake'[r].pc = "insert")
                   => \A part \in DOMAIN pathsOf(intake'[r]) :
                         \/ pathsOf(intake'[r])[part] \notin DOMAIN uploads
                         \/ pathsOf(intake'[r])[part] =
                               ToString(now) \o "-" \o intake'[r].files.parts[part]
           /\ \A n \in DOMAIN uploads :
                 n \notin namesAt(now)
                     => n \in DOMAIN uploads' /\ uploads'[n] = uploads[n]]_vars

\* two stored rows whose presentations bear the same original name and were
\* staged at different clock readings: both files are in the storage
C13_Witness ==
    /\ Len(db) = 2
    /\ db[1].presentation_url = "/uploads/1-s.pdf"
    /\ db[2].presentation_url = "/uploads/2-s.pdf"
    /\ db[2].paper_url = "/uploads/2-s.pdf"
    /\ {"1-s.pdf", "2-s.pdf"} \subseteq DOMAIN uploads

\* the response o was sent by the first stretch of an intake (before any
\* await) to a request that has every required field: a write of the
\* staging threw
stagingFailed(o) ==
    /\ o.handler = "intake" /\ o.intake.pc = "idle"
    /\ o.intake.files.defined /\ ~lacksRequired(o.intake)

\* C14: when a write of the staging throws, the intake is over: the response
\* is 500 with success false, no insert was or will be issued for the request
\* (no frame is left waiting for the table), the table holds no new row and
\* the mail transport is not called.
C14_StagingFailureAborts ==
    [][stagingFailed(out')
          => /\ out'.response = Response(500, FALSE, "Failed to submit presentation")
             /\ out'.intake.inserts = 0 /\ out'.intake.sends = 0
             /\ intake' = intake
             /\ db' = db
             /\ outbox' = outbox]_vars

\* the third write of a request with all three parts threw: the two files
\* written before it are in the storage, and the table is empty
C14_Witness ==
    /\ stagingFailed(out)
    /\ DOMAIN out.intake.files.parts = FileFields
    /\ out.intake.files.parts["presentationFile"] = "t.pdf"
    /\ DOMAIN uploads = {"1-t.pdf", "1-s.pdf"}
    /\ uploads["1-s.pdf"].field = "paperFile"
    /\ db = << >> /\ outbox = << >>

\* C15: when the table answers the insert with an error, it has stored no
\* row; the handler then answers 500 with success false and ends without
\* calling the mail transport, also for an email that is not institutional.
C15_InsertFailureAborts ==
    /\ [](\A r \in IntakeIds :
            intake[r].error
                => /\ intake[r].pc = "inserted"
                   /\ intake[r].data = 0 /\ intake[r].sends = 0)
    /\ []((out.handler = "intake" /\ out.intake.error)
            => /\ out.response = Response(500, FALSE, "Failed to submit presentation")
               /\ out.intake.sends = 0 /\ out.intake.mailed = "no")
    /\ [][\A r \in IntakeIds :
            /\ (intake'[r].error /\ ~intake[r].error) => db' = db /\ outbox' = outbox
            /\ (intake[r].error /\ intake'[r] # intake[r])
                  => /\ out'.handler = "intake" /\ out'.intake = intake[r]
                     /\ intake'[r].pc = "idle"
                     /\ db' = db /\ outbox' = outbox]_vars

\* the insert of a submission with a non-institutional email failed and the
\* handler answered: no row, no mail
C15_Witness ==
    /\ out.handler = "intake" /\ out.intake.error
    /\ out.intake.email = "b@gmail.com"
    /\ out.response.status = 500
    /\ db = << >> /\ outbox = << >>

\* the file names the references of a row name
filesOf(row) ==
    {n \in DOMAIN uploads :
        "/uploads/" \o n \in {row.presentation_url, row.paper_url, row.logo_url}}

\* the non-null references of a row
refsOf(row) == {row.presentation_url, row.paper_url, row.logo_url} \ {Null}

\* C16: an intake whose insert was issued has staged every part it was sent:
\* each part has a path and the file of that path is in the storage, from the
\* step that issues the insert on; hence every non-null reference of a
\* stored row names a file of the storage, and files are never removed.
C16_InsertAfterStaging ==
    /\ [](\A r \in IntakeIds :
            intake[r].pc # "idle"
                => /\ DOMAIN pathsOf(intake[r]) = DOMAIN intake[r].files.parts
                   /\ \A part \in DOMAIN pathsOf(intake[r]) :
                         pathsOf(intake[r])[part] \in DOMAIN uploads)
    /\ [](\A i \in DOMAIN db :
            Cardinality(filesOf(db[i])) = Cardinality(refsOf(db[i])))
    /\ [][ /\ DOMAIN uploads \subseteq DOMAIN uploads'
           /\ \A r \in IntakeIds :
                 (intake[r].pc = "idle" /\ intake'[r].pc # "idle")
                     => /\ intake'[r].pc = "insert" /\ db' = db
                        /\ \A part \in DOMAIN intake'[r].files.parts :
                              pathsOf(intake'[r])[part] \in DOMAIN uploads']_vars

\* a stored row with three different references, each of a file in storage
C16_Witness ==
    /\ Len(db) >= 1
    /\ db[1].presentation_url = "/uploads/1-t.pdf"
    /\ db[1].paper_url = "/uploads/1-s.pdf"
    /\ db[1].logo_url = "/uploads/2-s.pdf"
    /\ {"1-t.pdf", "1-s.pdf", "2-s.pdf"} \subseteq DOMAIN uploads

\* the step carries out the insert of the intake r without an error
insertSucceeds(r) ==
    intake[r].pc = "insert" /\ intake'[r].pc = "inserted" /\ ~intake'[r].error

\* C17: an intake issues at most one insert and calls the mail transport at
\* most once; the table grows by exactly one row in the step that carries out
\* an intake's insert without error and by none in any other step of any
\* request; no step removes a row or changes the id of one; the insert is
\* issued once per intake and the mail is handed over once per intake.
C17_OneInsertOneSendNoDelete ==
    /\ [](\A r \in IntakeIds : intake[r].inserts <= 1 /\ intake[r].sends <= 1)
    /\ [](out.intake.inserts <= 1 /\ out.intake.sends <= 1)
    /\ [][ /\ Len(db') >= Len(db)
           /\ \A i \in DOMAIN db : db'[i].id = db[i].id
           /\ Len(db') = Len(db) + (IF \E r \in IntakeIds : insertSucceeds(r) THEN 1 ELSE 0)
           /\ Len(outbox') =
                 Len(outbox) + (IF \E r \in IntakeIds :
                                      intake[r].pc = "inserted" /\ intake'[r].pc = "mail"
                                THEN 1 ELSE 0)
           /\ \A i \in DOMAIN outbox : outbox'[i] = outbox[i]
           /\ \A r \in IntakeIds :
                 /\ (intake'[r].pc = "insert" /\ intake'[r] # intake[r])
                       => intake[r].pc = "idle"
                 /\ (intake'[r].pc = "mail" /\ intake'[r] # intake[r])
                       => intake[r].pc = "inserted"]_vars

\* two intakes were served one after the other: two rows, one mail each, and
\* the second intake's sendMail was rejected
C17_Witness ==
    /\ Len(db) = 2 /\ Len(outbox) = 2
    /\ out.handler = "intake" /\ out.intake.mailed = "failed"
    /\ out.intake.inserts = 1 /\ out.intake.sends = 1
    /\ out.intake.data = 2

\* s is prefix followed by at least one more character
startsWithMore(s, prefix) ==
    Len(s) > Len(prefix) /\ SubSeq(s, 1, Len(prefix)) = prefix

\* C18: every stored row has a presentation reference that is not null and
\* begins with '/uploads/'; its paper reference is null when the request had
\* no paper part and begins with '/uploads/' when it had one, and likewise,
\* independently, its logo reference.
C18_ReferenceShape ==
    /\ [](\A i \in DOMAIN db :
            /\ db[i].presentation_url # Null
            /\ startsWithMore(db[i].presentation_url, "/uploads/")
            /\ db[i].paper_url = Null \/ startsWithMore(db[i].paper_url, "/uploads/")
            /\ db[i].logo_url = Null \/ startsWithMore(db[i].logo_url, "/uploads/"))
    /\ [][\A r \in IntakeIds :
            insertSucceeds(r)
                => LET row == db'[Len(db')]
                       parts == DOMAIN intake[r].files.parts
                   IN  /\ "presentationFile" \in parts
                       /\ row.paper_url = Null <=> "paperFile" \notin parts
                       /\ row.logo_url = Null <=> "logoFile" \notin parts]_vars

\* one row with a logo and no paper, another with a paper and no logo
C18_Witness ==
    /\ Len(db) = 2
    /\ db[1].paper_url = Null /\ db[1].logo_url # Null
    /\ db[2].paper_url # Null /\ db[2].logo_url = Null

\* C19: the step that serves GET /approve, with or without a studentId,
\* leaves the table, the outbox, the storage and every handler in flight as
\* they were: it only answers (the redirect when the id is missing, the page
\* otherwise). A row goes from 'pending' to 'approved' only in the step that
\* carries out the update of a POST /api/approve for its id.
C19_PageChangesNothing ==
    /\ [][out'.handler = "page"
            => /\ db' = db /\ outbox' = outbox /\ uploads' = uploads
               /\ intake' = intake /\ approve' = approve
               /\ out'.response.status = (IF out'.approve.studentId = 0 THEN 302 ELSE 200)]_vars
    /\ [][\A i \in DOMAIN db :
            (db[i].status = "pending" /\ db'[i].status = "approved")
                => /\ out'.handler # "page"
                   /\ \E a \in ApproveIds :
                         /\ approve[a].pc = "update" /\ approve'[a].pc = "updated"
                         /\ ~approve'[a].error
                         /\ approve[a].studentId = db[i].id]_vars

\* the page was served for the id of a pending row, which is still pending
C19_Witness ==
    /\ out.handler = "page" /\ out.response.status = 200
    /\ out.approve.studentId \in ids(db)
    /\ rowOf(db, out.approve.studentId).status = "pending"

\* C20: provided every collaborator call returns or fails, an intake or an
\* approve request that waits for a collaborator is eventually answered (200
\* or 500) and is then over. A handler answers in the very step that ends it
\* and in no other: a step of a handler in flight that does not end it sends
\* nothing, a step that ends it sends the response of that handler, and a
\* request answered before any await (400, or 500 from the catch) leaves no
\* handler in flight that could answer again.
C20_ExactlyOneResponse ==
    /\ \A r \in IntakeIds :
          (intake[r].pc # "idle")
              ~> (intake[r].pc = "idle" /\ out.handler = "intake"
                                       /\ out.response.status \in {200, 500})
    /\ \A a \in ApproveIds :
          (approve[a].pc # "idle")
              ~> (approve[a].pc = "idle" /\ out.handler = "approve"
                                        /\ out.response.status \in {200, 500})
    /\ [][ /\ \A r \in IntakeIds :
                 intake'[r] # intake[r]
                     => IF intake'[r].pc = "idle"
                        THEN /\ out'.handler = "intake" /\ out'.response # NoResponse
                             /\ out'.intake.pc = intake[r].pc
                             /\ out'.intake.data = intake[r].data
                        ELSE out' = NoOut
           /\ \A a \in ApproveIds :
                 approve'[a] # approve[a]
                     => IF approve'[a].pc = "idle"
                        THEN /\ out'.handler = "approve" /\ out'.response # NoResponse
                             /\ out'.approve = approve[a]
                        ELSE out' = NoOut
           /\ (out'.handler = "intake" /\ out'.intake.pc = "idle") => intake' = intake
           /\ (out'.handler = "approve" /\ out'.approve.pc = "idle") => approve' = approve
           /\ out' # NoOut => out'.response.status \in {200, 400, 500}]_vars

\* an intake answered after its sendMail was rejected while an approve
\* request is waiting for the table
C20_Witness ==
    /\ out.handler = "intake" /\ out.intake.mailed = "failed"
    /\ \A r \in IntakeIds : intake[r].pc = "idle"
    /\ \E a \in ApproveIds : approve[a].pc = "update"

====
